---- MODULE Spec2Model ----
(***************************************************************************)
(* Model of post.ipynb: a head marker `pt` and `n_trails` fading trail     *)
(* markers `trails`, the callbacks init() and update(i) that set their     *)
(* data, and the two save passes of the FuncAnimation object `ani`         *)
(* (ani.to_html5_video() and ani.save()).                                  *)
(*                                                                         *)
(* The trajectory samples (x[k], y[k]) = (sin t_k, cos t_k), with          *)
(* t = linspace(0, 10, n_frames), are pairwise distinct points (t_a - t_b  *)
(* is never a multiple of 2*pi), so a marker position is represented by    *)
(* the index of the sample it holds: <<k>> is the point (x[k], y[k]) and   *)
(* << >> is the empty data of set_data([], []).                            *)
(***************************************************************************)
EXTENDS Integers, Sequences, FiniteSets

VARIABLES n_frames, n_trails, alpha, artists, prev, last, rep, reads,
          pc, frame, log, other, joint

vars == <<n_frames, n_trails, alpha, artists, prev, last, rep, reads,
          pc, frame, log, other, joint>>

(* ------------------------------ bounds --------------------------------- *)
\* besides the notebook's own (128, 8), every frame count in 1..MaxFrames
\* is combined with every trail count in 1..MaxTrails
MaxFrames == 8
MaxTrails == 5

(* ------------------------- program constants --------------------------- *)
NotebookFrames == 128
NotebookTrails == 8

SmallConfigs == (1..MaxFrames) \X (1..MaxTrails)
AllConfigs == SmallConfigs \cup {<<NotebookFrames, NotebookTrails>>}

(* ------------------------------ helpers -------------------------------- *)
Empty == << >>

\* x[idx], y[idx] of a numpy array of length n: a negative index counts from
\* the end; the result is the index of the sample that is read
sample(n, idx) == IF idx < 0 THEN idx + n ELSE idx

\* np.linspace(start, stop, num) as exact fractions <<numerator, denominator>>
linspace(start, stop, num) ==
    [k \in 0..(num - 1) |->
        IF num = 1 THEN <<start, 1>>
        ELSE <<start * (num - 1) + k * (stop - start), num - 1>>]

\* range(n)[::-1]: position p of the reversed range holds n - 1 - p
range_forward(n) == [p \in 0..(n - 1) |-> p]
range_reversed(n) == [p \in 0..(n - 1) |-> n - 1 - p]

\* the artists right after ax.plot([], [], ...) for pt and for each trail
new_artists(K) == [pt |-> Empty, trails |-> [p \in 0..(K - 1) |-> Empty]]

(* ------------------------------ init() --------------------------------- *)
init_head_only(a) == [pt |-> Empty, trails |-> a.trails]
init(a) == [pt |-> Empty, trails |-> [p \in DOMAIN a.trails |-> Empty]]

(* ----------------------------- update(i) ------------------------------- *)
\* ix = i - n_trails
ix_off_by_one(i, K) == i - K + 1
ix_of(i, K) == i - K

\* `if ix + j < 0: continue`
skip_never(ix, j) == FALSE
skip(ix, j) == ix + j < 0

\* the sample index handed to x[...] for the trail paired with offset j
trail_source(ix, j) == ix + j

\* zip(range(len(trails))[::-1], trails): trails[p] is paired with
\* j = range(K)[::-1][p]; every pair writes its own trail, so the loop is
\* the pointwise map below
update_shifting(a, i, N) ==
    [pt |-> <<sample(N, i)>>,
     trails |-> [p \in DOMAIN a.trails |->
                   IF p = 0 THEN a.pt ELSE a.trails[p - 1]]]
update(a, i, N) ==
    LET K == Cardinality(DOMAIN a.trails)
        ix == ix_of(i, K)
        js == range_reversed(K)
    IN [pt |-> <<sample(N, i)>>,
        trails |-> [p \in DOMAIN a.trails |->
                      IF skip(ix, js[p]) THEN a.trails[p]
                      ELSE <<sample(N, trail_source(ix, js[p]))>>]]

\* the raw indices update(i) hands to x[...] and y[...]
update_reads(i, K) ==
    LET ix == ix_of(i, K)
        js == range_reversed(K)
    IN {i} \cup {trail_source(ix, js[p]) : p \in {q \in 0..(K - 1) : ~skip(ix, js[q])}}

(* ------------------------ calls of the callbacks ----------------------- *)
InitCall == [fn |-> "init", arg |-> -1]
UpdateCall(i) == [fn |-> "update", arg |-> i]
NoCall == [fn |-> "none", arg |-> -1]

\* one call of init(): `prev` keeps the artists as they were before the call,
\* `rep` counts (up to 2) how often the same call was made in a row
CallInit ==
    /\ artists' = init(artists)
    /\ prev' = artists
    /\ last' = InitCall
    /\ rep' = IF last = InitCall THEN 2 ELSE 1
    /\ reads' = {}

CallUpdate(i) ==
    /\ artists' = update(artists, i, n_frames)
    /\ prev' = artists
    /\ last' = UpdateCall(i)
    /\ rep' = IF last = UpdateCall(i) THEN 2 ELSE 1
    /\ reads' = update_reads(i, n_trails)

(* --------------------------- initial states ---------------------------- *)
InitWith(configs) ==
    /\ \E c \in configs : n_frames = c[1] /\ n_trails = c[2]
    /\ alpha = linspace(1, 0, n_trails)
    /\ artists = new_artists(n_trails)
    /\ prev = new_artists(n_trails)
    /\ last = NoCall
    /\ rep = 0
    /\ reads = {}
    /\ pc = "cell4"
    /\ frame = 0
    /\ log = << >>
    /\ other = new_artists(n_trails)
    /\ joint = -1

(* ----------------- the animation driver (two save passes) -------------- *)
\* FuncAnimation(fig, update, n_frames, init_func=init): the frame sequence
\* of one pass is iter(range(n_frames)), limited to save_count = n_frames
new_saved_frame_seq_short(n) == [k \in 1..(n - 1) |-> k - 1]
new_saved_frame_seq(n) == [k \in 1..n |-> k - 1]

\* Animation.save(): _init_draw() calls init_func before the first frame
StartPass(from, to) ==
    /\ pc = from
    /\ pc' = to
    /\ CallInit
    /\ frame' = 0
    /\ log' = <<InitCall>>
    /\ UNCHANGED <<n_frames, n_trails, alpha, other, joint>>

\* HTML(ani.to_html5_video()) saves the animation to a temporary file
to_html5_video == StartPass("cell4", "html5")

\* ani.save("circle_anim.mov", ...)
save == StartPass("cell5", "mov")

\* Animation.save(): _draw_next_frame(d) for the next d of the sequence
draw_next_frame ==
    /\ pc \in {"html5", "mov"}
    /\ frame < Len(new_saved_frame_seq(n_frames))
    /\ LET i == new_saved_frame_seq(n_frames)[frame + 1]
       IN /\ CallUpdate(i)
          /\ log' = Append(log, UpdateCall(i))
    /\ frame' = frame + 1
    /\ UNCHANGED <<n_frames, n_trails, alpha, pc, other, joint>>

\* the frame sequence is exhausted: the writer finishes the file
finish ==
    /\ pc \in {"html5", "mov"}
    /\ frame = Len(new_saved_frame_seq(n_frames))
    /\ pc' = IF pc = "html5" THEN "cell5" ELSE "done"
    /\ UNCHANGED <<n_frames, n_trails, alpha, artists, prev, last, rep, reads,
                   frame, log, other, joint>>

Init == InitWith(AllConfigs)

Next == to_html5_video \/ save \/ draw_next_frame \/ finish

Spec == Init /\ [][Next]_vars

(* -------- init() and update(i) called in any order, any i in range ----- *)
FreeInit ==
    /\ CallInit
    /\ UNCHANGED <<n_frames, n_trails, alpha, pc, frame, log, other, joint>>

FreeUpdate ==
    /\ \E i \in 0..(n_frames - 1) : CallUpdate(i)
    /\ UNCHANGED <<n_frames, n_trails, alpha, pc, frame, log, other, joint>>

InitFree == InitWith(SmallConfigs)

NextFree == FreeInit \/ FreeUpdate

SpecFree == InitFree /\ [][NextFree]_vars

(* ---- two runs: `artists` and `other` get their own calls, then the ---- *)
(* ---- same update(i) is applied to both                             ---- *)
PairFrame == <<n_frames, n_trails, alpha, prev, last, rep, reads, pc, frame, log>>

PairInitA ==
    /\ artists' = init(artists)
    /\ joint' = -1
    /\ UNCHANGED other
    /\ UNCHANGED PairFrame

PairUpdateA ==
    /\ \E i \in 0..(n_frames - 1) : artists' = update(artists, i, n_frames)
    /\ joint' = -1
    /\ UNCHANGED other
    /\ UNCHANGED PairFrame

PairInitB ==
    /\ other' = init(other)
    /\ joint' = -1
    /\ UNCHANGED artists
    /\ UNCHANGED PairFrame

PairUpdateB ==
    /\ \E i \in 0..(n_frames - 1) : other' = update(other, i, n_frames)
    /\ joint' = -1
    /\ UNCHANGED artists
    /\ UNCHANGED PairFrame

PairUpdateBoth ==
    /\ \E i \in 0..(n_frames - 1) :
          /\ artists' = update(artists, i, n_frames)
          /\ other' = update(other, i, n_frames)
          /\ joint' = i
    /\ UNCHANGED PairFrame

NextPair == PairInitA \/ PairUpdateA \/ PairInitB \/ PairUpdateB \/ PairUpdateBoth

SpecPair == InitFree /\ [][NextPair]_vars

(* ============================ properties =============================== *)
Min(a, b) == IF a < b THEN a ELSE b
Max(a, b) == IF a > b THEN a ELSE b

\* the trail slots that hold a position
Drawn(a) == {p \in DOMAIN a.trails : a.trails[p] # Empty}

\* a pass has run init() and then update(0), ..., update(frame - 1) in order
AfterUpdates == frame >= 1

\* C1 as stated: after init() and update(0..i) in increasing order exactly
\* max(0, min(K, i+1)) trail slots are drawn (i = frame - 1)
C1_DrawnCountAsStated ==
    AfterUpdates =>
        Cardinality(Drawn(artists)) = Max(0, Min(n_trails, (frame - 1) + 1))

\* C1 amended: after init() and update(0..i) in increasing order exactly
\* min(K, i) trail slots are drawn and the other K - min(K, i) are empty
C1_DrawnCount ==
    AfterUpdates =>
        /\ Cardinality(Drawn(artists)) = Min(n_trails, frame - 1)
        /\ Cardinality(DOMAIN artists.trails \ Drawn(artists))
               = n_trails - Min(n_trails, frame - 1)

C1_Witness ==
    /\ AfterUpdates
    /\ Cardinality(Drawn(artists)) > 0
    /\ Cardinality(Drawn(artists)) < n_trails

IsNotebook == n_frames = 128 /\ n_trails = 8

PassOf128Updates ==
    /\ Len(log) = 129
    /\ log[1] = InitCall
    /\ \A k \in 2..129 : log[k] = UpdateCall(k - 2)
    /\ last = UpdateCall(127)

\* C2 as stated: with N = 128 and K = 8 a pass calls update exactly 128
\* times and after update(127) the 8 trail slots hold samples 120..127
C2_FinalFrameAsStated ==
    (IsNotebook /\ pc \in {"cell5", "done"}) =>
        /\ PassOf128Updates
        /\ Cardinality(Drawn(artists)) = 8
        /\ {artists.trails[p] : p \in DOMAIN artists.trails} = {<<s>> : s \in 120..127}

\* C2 amended: with N = 128 and K = 8 a pass calls update exactly 128 times
\* and after update(127) the 8 trail slots hold samples 119..126
C2_FinalFrame ==
    (IsNotebook /\ pc \in {"cell5", "done"}) =>
        /\ PassOf128Updates
        /\ Cardinality(Drawn(artists)) = 8
        /\ {artists.trails[p] : p \in DOMAIN artists.trails} = {<<s>> : s \in 119..126}

C2_Witness == IsNotebook /\ pc = "done" /\ frame = 128 /\ artists.pt = <<127>>

\* C3: for K <= i < N, update(i) from any marker state draws all K slots;
\* the slot paired with loop offset j (trails[K-1-j]) holds
\* trajectory[i-K+j], so the samples grow with j (oldest to newest)
C3_FullTrail ==
    (last.fn = "update" /\ last.arg >= n_trails) =>
        /\ Drawn(artists) = DOMAIN artists.trails
        /\ \A j \in 0..(n_trails - 1) :
              artists.trails[n_trails - 1 - j] = <<last.arg - n_trails + j>>
        /\ \A j1, j2 \in 0..(n_trails - 1) :
              j1 < j2 => artists.trails[n_trails - 1 - j1][1]
                             < artists.trails[n_trails - 1 - j2][1]

C3_Witness ==
    /\ last.fn = "update"
    /\ last.arg >= n_trails
    /\ n_trails >= 2
    /\ Drawn(prev) # {}
    /\ \A p \in DOMAIN prev.trails : prev.trails[p] # artists.trails[p]

\* C4: update(0) right after init() puts the head at trajectory[0] and
\* leaves all K trail slots empty; only sample 0 is read
C4_FirstFrame ==
    (log = <<InitCall, UpdateCall(0)>>) =>
        /\ artists.pt = <<0>>
        /\ \A p \in DOMAIN artists.trails : artists.trails[p] = Empty
        /\ \A j \in 0..(n_trails - 1) : 0 - n_trails + j < 0
        /\ reads = {0}

C4_Witness ==
    /\ log = <<InitCall, UpdateCall(0)>>
    /\ pc = "mov"
    /\ artists.pt = <<0>>
    /\ n_trails > 1

\* C5 as stated: two runs of update(i) from any two marker states end in
\* the same marker state
C5_StatelessAsStated == (joint # -1) => artists = other

\* C5 amended: after update(i) from any two marker states the head and
\* every trail slot with a non-negative source index (all K slots when
\* i >= K) agree; the skipped slots need not
C5_Stateless ==
    (joint # -1) =>
        /\ artists.pt = other.pt
        /\ \A p \in DOMAIN artists.trails :
              (joint - 1 - p >= 0) => artists.trails[p] = other.trails[p]
        /\ (joint >= n_trails) => artists = other

C5_Witness ==
    /\ joint > 0
    /\ joint < n_trails
    /\ artists # other
    /\ Drawn(artists) = DOMAIN artists.trails
    /\ Cardinality(Drawn(other)) = joint

\* C6: update(i) called twice in a row from any marker state leaves the
\* head and all trail slots after the second call as after the first
C6_Idempotent == (rep = 2 /\ last.fn = "update") => artists = prev

C6_Witness ==
    /\ rep = 2
    /\ last.fn = "update"
    /\ last.arg > 0
    /\ last.arg < n_trails
    /\ \E p \in DOMAIN artists.trails : p >= last.arg /\ artists.trails[p] # Empty

\* C7: in update(i) a slot whose source index i-K+j is negative is not
\* written (it keeps its position, no clamped or wrapped sample), and every
\* index update(i) reads lies in [0, i]
C7_SkipNegative ==
    (last.fn = "update") =>
        /\ \A j \in 0..(n_trails - 1) :
              (last.arg - n_trails + j < 0) =>
                  artists.trails[n_trails - 1 - j] = prev.trails[n_trails - 1 - j]
        /\ reads \subseteq 0..last.arg

C7_Witness ==
    /\ last.fn = "update"
    /\ last.arg < n_trails
    /\ \E p \in DOMAIN prev.trails : prev.trails[p] = Empty /\ artists.trails[p] = Empty
    /\ \E p \in DOMAIN prev.trails :
          /\ p >= last.arg
          /\ prev.trails[p] # Empty
          /\ prev.trails[p] # <<0>>

\* C8: in each of the two passes init() runs first, then update is called
\* once per frame index in the order 0, 1, ..., N-1, always within [0, N),
\* and the pass ends after the N-th update
C8_PassOrder ==
    (pc # "cell4") =>
        /\ Len(log) >= 1
        /\ Len(log) <= n_frames + 1
        /\ log[1] = InitCall
        /\ \A k \in 2..Len(log) :
              log[k] = UpdateCall(k - 2) /\ k - 2 >= 0 /\ k - 2 < n_frames
        /\ Len(log) = frame + 1
        /\ (pc \in {"cell5", "done"}) => Len(log) = n_frames + 1

C8_Witness == pc = "done" /\ IsNotebook /\ Len(log) = 129

\* C9: init() called in any marker state, the one left by update(N-1)
\* included, leaves the head and all K trail slots empty
C9_InitClears ==
    (last = InitCall) =>
        /\ artists.pt = Empty
        /\ \A p \in DOMAIN artists.trails : artists.trails[p] = Empty

C9_Witness ==
    /\ last = InitCall
    /\ prev.pt = <<n_frames - 1>>
    /\ Drawn(prev) = DOMAIN prev.trails
    /\ n_trails > 1

\* C10: the trail created k-th has opacity 1 - k/(K-1) (1.0 at k = 0 down
\* to 0 at k = K-1 when K > 1), never changed; after init() and
\* update(0..i) it is drawn iff k < i and then holds trajectory[i-1-k], so
\* the most opaque one holds the sample before the head and none holds
\* the head's sample
C10_FadeFollowsAge ==
    /\ DOMAIN alpha = 0..(n_trails - 1)
    /\ alpha[0][1] = alpha[0][2]
    /\ \A k \in 0..(n_trails - 1) :
          (n_trails > 1) => alpha[k] = <<n_trails - 1 - k, n_trails - 1>>
    /\ AfterUpdates =>
          /\ artists.pt = <<frame - 1>>
          /\ \A k \in 0..(n_trails - 1) :
                /\ (artists.trails[k] # Empty) <=> (k < frame - 1)
                /\ (k < frame - 1) => artists.trails[k] = <<(frame - 1) - 1 - k>>
                /\ artists.trails[k] # artists.pt

C10_Witness ==
    /\ AfterUpdates
    /\ pc = "mov"
    /\ n_trails > 1
    /\ artists.trails[0] = <<frame - 2>>
    /\ artists.trails[n_trails - 1] = Empty

====
